---- MODULE Spec2Model ----
(***************************************************************************)
(* Asynchronous generation orchestration of the CarouselAI workspace       *)
(* (components/Workspace.tsx) and the model fallback of the Gemini service *)
(* (services/geminiService.ts).                                            *)
(*                                                                         *)
(* Workspace part.  `slides` is the React state owned by App (App.tsx:17), *)
(* written through onUpdateSlides = setSlides.  `renderedSlides` is the    *)
(* `slides` prop of the last committed render of Workspace: it is what the *)
(* handlers of that render close over.  `slidesRef` is slidesRef.current,  *)
(* refreshed by the effect of Workspace.tsx:78-80 after a render commits.  *)
(* A click handler's updates are rendered synchronously with the event; an *)
(* update made by a promise continuation, a FileReader callback or a timer *)
(* is rendered later (Commit), and other continuations may run before that *)
(* render.  User input is handled on a committed render (Committed).       *)
(***************************************************************************)
EXTENDS Integers, Sequences, FiniteSets, TLC

\* ------------------------------------------------------------------ bounds
NInit == 3          \* slides the workspace is entered with (App.tsx:86-90)
MaxTasks == 2       \* asynchronous tasks started in one run
MaxEdits == 1       \* store edits by the user in one run (text, add, delete,
                    \* import)
MaxImages == 2      \* <img> elements in the captured preview
MaxRefined == 3     \* slides handed to one call of refineCarouselContent
CeilingTimeout == 3 \* seconds of the safety timeout of waitForImages

VARIABLES
    slides,                  \* App state: the slide collection (the store)
    renderedSlides,          \* `slides` prop seen by the current handlers
    slidesRef,               \* slidesRef.current
    activeSlideId,
    nextId,                  \* ids handed out so far by crypto.randomUUID()
    nEdits, nTasks,
    tasks,                   \* asynchronous handlers suspended at an await
    generatingSlideIds,
    generatingBackgroundIds,
    isStylizing,
    isEditingImage,
    isRefining,
    pendingUploadImage,
    batchMode,
    selectedSlideIds,
    batchGenerating,
    slideGenerationStatus,
    timers,                  \* pending 3000 ms clear timers of finished batches
    last,                    \* the completion the last step was, if it was one
    isDownloading,
    export,                  \* handleDownloadSlide / handleDownloadCarousel
    capture,                 \* one call of captureSlide
    theme,                   \* the global theme setting
    svc,                     \* one call of a geminiService operation
    refineCall               \* the slides, the index and the backend response
                             \* of one call of refineCarouselContent, and
                             \* what parseResponse made of them

wsVars == <<slides, renderedSlides, slidesRef, activeSlideId, nextId, nEdits,
            nTasks, tasks, generatingSlideIds,
            generatingBackgroundIds, isStylizing, isEditingImage, isRefining,
            pendingUploadImage, batchMode, selectedSlideIds, batchGenerating,
            slideGenerationStatus, timers, last, isDownloading, export,
            capture, theme>>

expVars == <<isDownloading, export, capture>>

vars == <<wsVars, svc, refineCall>>

\* ------------------------------------------------------------------ slides
None == <<>>

Ids(s) == {s[i].id : i \in DOMAIN s}

\* Array.prototype.findIndex(s => s.id === id); 0 stands for -1
FindIndex(s, id) ==
    IF \E i \in DOMAIN s : s[i].id = id
    THEN CHOOSE i \in DOMAIN s : s[i].id = id /\ \A j \in 1..(i-1) : s[j].id # id
    ELSE 0

SlideOf(s, id) == s[FindIndex(s, id)]

Filter(s, id) == SelectSeq(s, LAMBDA x : x.id # id)

NewSlide(id, content) ==
    [id |-> id, content |-> content, imageUrl |-> None,
     backgroundImageUrl |-> None]

\* the image a request of task t of the given kind returns for slide id
Token(t, id, kind) == <<t, id, kind>>

activeIndex == FindIndex(renderedSlides, activeSlideId)

NoStatus == [i \in {} |-> "idle"]

\* `last` describes the step only: every step that is no completion resets
\* it.  `event` names the file of an import and marks an export request that
\* was refused.
NoLast == [t |-> 0, kind |-> "none", slideId |-> 0, index |-> 0,
           targets |-> {}, ok |-> FALSE, wrote |-> FALSE, replaced |-> None,
           members |-> NoStatus, peers |-> {}, alert |-> FALSE,
           event |-> "none"]

\* no export is running; `zip`, `results`, `saved` and `notice` keep what the
\* last export did until the next one starts
ExportIdle == [kind |-> "none", pc |-> "idle", i |-> 0, captured |-> <<>>,
               originalActiveId |-> 0, zip |-> <<>>, results |-> <<>>,
               saved |-> None, notice |-> FALSE]

CaptureIdle == [pc |-> "idle", images |-> <<>>, loaded |-> 0, clock |-> 0,
                result |-> "none", shown |-> 0]

\* ------------------------------------------------------------------- init
WsInit ==
    /\ slides = [i \in 1..NInit |-> NewSlide(i, <<"init", i>>)]
    /\ renderedSlides = slides
    /\ slidesRef = slides
    /\ activeSlideId = 1
    /\ nextId = NInit
    /\ nEdits = 0 /\ nTasks = 0
    /\ tasks = {}
    /\ generatingSlideIds = {}
    /\ generatingBackgroundIds = {}
    /\ isStylizing = FALSE
    /\ isEditingImage = FALSE
    /\ isRefining = FALSE
    /\ pendingUploadImage = FALSE
    /\ batchMode = FALSE
    /\ selectedSlideIds = {}
    /\ batchGenerating = FALSE
    /\ slideGenerationStatus = NoStatus
    /\ timers = 0
    /\ last = NoLast
    /\ isDownloading = FALSE
    /\ export = ExportIdle
    /\ capture = CaptureIdle
    /\ theme = "LIGHT"

SvcIdle == [op |-> "none", start |-> "none", model |-> "none", pc |-> "idle",
            log |-> <<>>, result |-> None, error |-> None]

RefineCallIdle ==
    [pc |-> "idle", slides |-> <<>>, slideIndex |-> 0,
     json |-> [hasSlides |-> FALSE, slides |-> <<>>, entry |-> <<>>],
     out |-> <<>>]

Init == WsInit /\ svc = SvcIdle /\ refineCall = RefineCallIdle

\* ------------------------------------------------- rendering of an update
\* A click handler's state updates are rendered before the event returns;
\* the effect of lines 78-80 then refreshes slidesRef, and the effect of
\* lines 222-226 resets the upload modal when activeSlideId changed.
SyncRender(newSlides, newActive) ==
    /\ slides' = newSlides
    /\ renderedSlides' = newSlides
    /\ slidesRef' = newSlides
    /\ activeSlideId' = newActive
    /\ pendingUploadImage' =
          IF newActive # activeSlideId THEN FALSE ELSE pendingUploadImage

Committed == renderedSlides = slides /\ slidesRef = slides

\* The render scheduled by a continuation's setSlides, with its effect.
Commit ==
    /\ ~Committed
    /\ renderedSlides' = slides
    /\ slidesRef' = slides
    /\ UNCHANGED <<slides, activeSlideId, nextId, nEdits, nTasks,
                   tasks, generatingSlideIds, generatingBackgroundIds,
                   isStylizing, isEditingImage, isRefining, pendingUploadImage,
                   batchMode, selectedSlideIds, batchGenerating,
                   slideGenerationStatus, timers, svc, refineCall, expVars, theme>>
    /\ last' = NoLast

\* ------------------------------------------------------------ user edits
taskVars == <<nTasks, tasks, generatingSlideIds, generatingBackgroundIds,
              isStylizing, isEditingImage, isRefining>>

batchVars == <<batchMode, selectedSlideIds, batchGenerating,
               slideGenerationStatus, timers>>

handleTextChange ==
    /\ last' = NoLast
    /\ Committed
    /\ activeIndex # 0
    /\ nEdits < MaxEdits
    /\ nEdits' = nEdits + 1
    /\ SyncRender([renderedSlides EXCEPT
                      ![activeIndex].content = <<"user", nEdits + 1>>],
                  activeSlideId)
    /\ UNCHANGED <<nextId, taskVars, batchVars, svc, refineCall, expVars, theme>>

\* the delete button is rendered outside batch mode only (line 1318)
handleDeleteSlide ==
    /\ last' = NoLast
    /\ Committed
    /\ ~batchMode
    /\ Len(renderedSlides) > 1
    /\ nEdits < MaxEdits
    /\ nEdits' = nEdits + 1
    /\ LET newSlides == Filter(renderedSlides, activeSlideId)
       IN  SyncRender(newSlides, newSlides[1].id)
    /\ UNCHANGED <<nextId, taskVars, batchVars, svc, refineCall, expVars, theme>>

InsertAt(s, i, x) == SubSeq(s, 1, i) \o <<x>> \o SubSeq(s, i + 1, Len(s))

handleAddSlide ==
    /\ last' = NoLast
    /\ Committed
    /\ nEdits < MaxEdits
    /\ nEdits' = nEdits + 1
    /\ nextId' = nextId + 1
    /\ SyncRender(InsertAt(renderedSlides, activeIndex,
                           NewSlide(nextId + 1, <<"new", nextId + 1>>)),
                  nextId + 1)
    /\ UNCHANGED <<taskVars, batchVars, svc, refineCall, expVars, theme>>

\* a click on an entry of the slide list (line 1273)
SelectSlide ==
    /\ last' = NoLast
    /\ Committed
    /\ ~batchMode
    /\ \E id \in Ids(renderedSlides) :
          /\ id # activeSlideId
          /\ SyncRender(slides, id)
    /\ UNCHANGED <<nextId, nEdits, taskVars, batchVars, svc, refineCall, expVars, theme>>

\* reader.onload of handleImportProject: a FileReader callback, whose updates
\* are batched into one later render.
\* project files a user may import: an earlier save of this project (the same
\* ids, other content) and a project made elsewhere
\* and a file whose slides array is empty
Projects ==
    { [i \in 1..2 |-> NewSlide(i, <<"file", i>>)],
      <<NewSlide(0, <<"file", 0>>)>>,
      <<>> }

\* The files a user may choose.  `json` is whether JSON.parse accepts the
\* text, `hasSlides` whether the parsed value has a slides array, `slides`
\* that array, `theme` the theme field ("none" when absent, as in older
\* files).
ProjectFiles ==
    { [name |-> "saved", json |-> TRUE, hasSlides |-> TRUE, theme |-> "DARK",
       slides |-> [i \in 1..2 |-> NewSlide(i, <<"file", i>>)]],
      [name |-> "older", json |-> TRUE, hasSlides |-> TRUE, theme |-> "none",
       slides |-> <<NewSlide(0, <<"file", 0>>)>>],
      [name |-> "empty", json |-> TRUE, hasSlides |-> TRUE, theme |-> "none",
       slides |-> <<>>],
      [name |-> "noSlides", json |-> TRUE, hasSlides |-> FALSE,
       theme |-> "DARK", slides |-> <<>>],
      [name |-> "unparsable", json |-> FALSE, hasSlides |-> FALSE,
       theme |-> "none", slides |-> <<>>] }

\* JSON.parse throws, or the validation of lines 607-609 does
ImportFails(file) == ~file.json \/ ~file.hasSlides

ImportUnchanged ==
    [slides |-> slides, theme |-> theme, active |-> activeSlideId,
     alert |-> TRUE]

\* variant: the settings are restored before the slides array is looked at
ImportOutcomeSettingsFirst(file) ==
    IF ~file.json THEN ImportUnchanged
    ELSE IF ~file.hasSlides
    THEN [ImportUnchanged EXCEPT
             !.theme = IF file.theme # "none" THEN file.theme ELSE theme]
    ELSE [slides |-> file.slides,
          theme |-> IF file.theme # "none" THEN file.theme ELSE theme,
          active |-> IF Len(file.slides) > 0 THEN file.slides[1].id
                     ELSE activeSlideId,
          alert |-> FALSE]

\* the try block of reader.onload: what the store, the settings and the
\* active slide are afterwards, and whether the failure alert of the catch
\* was shown
ImportOutcome(file) ==
    IF ImportFails(file) THEN ImportUnchanged
    ELSE [slides |-> file.slides,
          theme |-> IF file.theme # "none" THEN file.theme ELSE theme,
          active |-> IF Len(file.slides) > 0 THEN file.slides[1].id
                     ELSE activeSlideId,
          alert |-> FALSE]

handleImportProject ==
    /\ nEdits < MaxEdits
    /\ nEdits' = nEdits + 1
    /\ \E file \in ProjectFiles :
          LET outcome == ImportOutcome(file) IN
          /\ slides' = outcome.slides
          /\ theme' = outcome.theme
          /\ activeSlideId' = outcome.active
          /\ pendingUploadImage' =
                IF outcome.active # activeSlideId THEN FALSE
                ELSE pendingUploadImage
          /\ last' = [NoLast EXCEPT !.event = file.name,
                                    !.alert = outcome.alert]
    /\ UNCHANGED <<renderedSlides, slidesRef, nextId, taskVars,
                   batchVars, svc, refineCall, expVars>>

handleFileUpload ==
    /\ last' = NoLast
    /\ Committed
    /\ activeIndex # 0
    /\ ~pendingUploadImage
    /\ pendingUploadImage' = TRUE
    /\ UNCHANGED <<slides, renderedSlides, slidesRef, activeSlideId, nextId,
                   nEdits, taskVars, batchVars, svc, refineCall, expVars, theme>>

\* ------------------------------------------------- single-slide requests
uiVars == <<activeSlideId, nextId, nEdits>>

\* a handler suspended at its await: the slide id (and, for refinement, the
\* collection and the index) captured when it was called
NewTask(kind, id, captured, index, members) ==
    [t |-> nTasks + 1, kind |-> kind, slideId |-> id, captured |-> captured,
     index |-> index, members |-> members,
     \* observation only: the slides the task was started for, and the tasks
     \* in flight when it started
     targets |-> IF kind = "batch" THEN DOMAIN members
                 ELSE IF kind = "global" THEN Ids(captured) ELSE {id},
     peers |-> {x.t : x \in tasks}]

Start(task) ==
    /\ last' = NoLast
    /\ nTasks < MaxTasks
    /\ nTasks' = nTasks + 1
    /\ tasks' = tasks \cup {task}

\* variant: the catch block only logs the error
CatchSilent(ok) == FALSE

\* catch (error) { console.error(...); alert("Failed to ...") }: whether the
\* handler has shown a failure message
CatchAlert(ok) == ~ok

Finish(task, ok, wrote, replaced, members) ==
    /\ tasks' = tasks \ {task}
    /\ last' = [t |-> task.t, kind |-> task.kind, slideId |-> task.slideId,
                index |-> task.index, targets |-> task.targets, ok |-> ok,
                wrote |-> wrote, replaced |-> replaced, members |-> members,
                peers |-> task.peers, alert |-> CatchAlert(ok),
                event |-> "none"]

\* const currentSlides = slidesRef.current (lines 383, 485, 693, 751)
CurrentSlides == slidesRef

\* variant: the position of the slide when the task started
TargetIndexAtStart(task) == task.index

\* const slideIndex = currentSlides.findIndex(s => s.id === slideId)
TargetIndex(task) == FindIndex(CurrentSlides, task.slideId)

\* variant: an image already on the slide is kept
WithImageIfEmpty(s, idx, image) ==
    IF s[idx].imageUrl = None THEN [s EXCEPT ![idx].imageUrl = image] ELSE s

\* newSlides[slideIndex] = {...slide, imageUrl: image}
WithImage(s, idx, image) == [s EXCEPT ![idx].imageUrl = image]

WithBackground(s, idx, image) == [s EXCEPT ![idx].backgroundImageUrl = image]

\* the part of a single-slide handler after its await: on success the result
\* is applied to the current collection unless the slide is gone; `ok` is
\* whether the request (with its fallback) succeeded
Reconcile(task, ok, newSlides) ==
    /\ slides' = IF ok /\ TargetIndex(task) # 0 THEN newSlides ELSE slides
    /\ Finish(task, ok, ok /\ TargetIndex(task) # 0,
              IF FindIndex(slides, task.slideId) = 0 THEN None
              ELSE IF task.kind = "background"
                   THEN SlideOf(slides, task.slideId).backgroundImageUrl
                   ELSE SlideOf(slides, task.slideId).imageUrl,
              NoStatus)
    /\ UNCHANGED <<renderedSlides, slidesRef, uiVars, nTasks, batchVars, svc, refineCall, expVars, theme>>

\* variant: the button is never disabled
GenerateAlwaysEnabled(id) == FALSE

\* disabled={generatingSlideIds.has(activeSlide.id)} of the AI Generate
\* button, the one caller of handleGenerateImage
GenerateDisabled(id) == id \in generatingSlideIds

handleGenerateImage ==
    /\ Committed
    /\ activeIndex # 0
    /\ ~GenerateDisabled(activeSlideId)
    /\ Start(NewTask("image", activeSlideId, <<>>, activeIndex, NoStatus))
    /\ generatingSlideIds' = generatingSlideIds \cup {activeSlideId}
    /\ UNCHANGED <<slides, renderedSlides, slidesRef, uiVars,
                   generatingBackgroundIds, isStylizing, isEditingImage,
                   isRefining, pendingUploadImage, batchVars, svc, refineCall, expVars, theme>>

GenerateImageDone ==
    \E task \in tasks : \E ok \in BOOLEAN :
        /\ task.kind = "image"
        /\ Reconcile(task, ok,
              WithImage(CurrentSlides, TargetIndex(task),
                        Token(task.t, task.slideId, task.kind)))
        /\ generatingSlideIds' = generatingSlideIds \ {task.slideId}
        /\ UNCHANGED <<generatingBackgroundIds, isStylizing, isEditingImage,
                       isRefining, pendingUploadImage>>

handleGenerateBackgroundImage ==
    /\ Committed
    /\ activeIndex # 0
    /\ activeSlideId \notin generatingBackgroundIds
    /\ Start(NewTask("background", activeSlideId, <<>>, activeIndex, NoStatus))
    /\ generatingBackgroundIds' = generatingBackgroundIds \cup {activeSlideId}
    /\ UNCHANGED <<slides, renderedSlides, slidesRef, uiVars,
                   generatingSlideIds, isStylizing, isEditingImage,
                   isRefining, pendingUploadImage, batchVars, svc, refineCall, expVars, theme>>

GenerateBackgroundImageDone ==
    \E task \in tasks : \E ok \in BOOLEAN :
        /\ task.kind = "background"
        /\ Reconcile(task, ok,
              WithBackground(CurrentSlides, TargetIndex(task),
                             Token(task.t, task.slideId, task.kind)))
        /\ generatingBackgroundIds' = generatingBackgroundIds \ {task.slideId}
        /\ UNCHANGED <<generatingSlideIds, isStylizing, isEditingImage,
                       isRefining, pendingUploadImage>>

handleStylizeImage ==
    /\ Committed
    /\ pendingUploadImage
    /\ activeIndex # 0
    /\ ~isStylizing
    /\ Start(NewTask("stylize", activeSlideId, <<>>, activeIndex, NoStatus))
    /\ isStylizing' = TRUE
    /\ UNCHANGED <<slides, renderedSlides, slidesRef, uiVars,
                   generatingSlideIds, generatingBackgroundIds, isEditingImage,
                   isRefining, pendingUploadImage, batchVars, svc, refineCall, expVars, theme>>

StylizeImageDone ==
    \E task \in tasks : \E ok \in BOOLEAN :
        /\ task.kind = "stylize"
        /\ Reconcile(task, ok,
              WithImage(CurrentSlides, TargetIndex(task),
                        Token(task.t, task.slideId, task.kind)))
        /\ pendingUploadImage' =
              IF ok /\ TargetIndex(task) # 0 THEN FALSE ELSE pendingUploadImage
        /\ isStylizing' = FALSE
        /\ UNCHANGED <<generatingSlideIds, generatingBackgroundIds,
                       isEditingImage, isRefining>>

handleEditImage ==
    /\ Committed
    /\ activeIndex # 0
    /\ renderedSlides[activeIndex].imageUrl # None
    /\ ~isEditingImage
    /\ Start(NewTask("edit", activeSlideId, <<>>, activeIndex, NoStatus))
    /\ isEditingImage' = TRUE
    /\ UNCHANGED <<slides, renderedSlides, slidesRef, uiVars,
                   generatingSlideIds, generatingBackgroundIds, isStylizing,
                   isRefining, pendingUploadImage, batchVars, svc, refineCall, expVars, theme>>

EditImageDone ==
    \E task \in tasks : \E ok \in BOOLEAN :
        /\ task.kind = "edit"
        /\ Reconcile(task, ok,
              WithImage(CurrentSlides, TargetIndex(task),
                        Token(task.t, task.slideId, task.kind)))
        /\ isEditingImage' = FALSE
        /\ UNCHANGED <<generatingSlideIds, generatingBackgroundIds,
                       isStylizing, isRefining, pendingUploadImage>>

\* ---------------------------------------------------- content refinement
\* parseResponse of refineCarouselContent: the slides handed to the call with
\* the content of all of them (index 0: global) or of the one at `index`
\* replaced by the backend's text
RefinedSlides(captured, index, t) ==
    [i \in DOMAIN captured |->
        IF index = 0 \/ i = index
        THEN [captured[i] EXCEPT !.content = <<"ai", t>>]
        ELSE captured[i]]

handleGlobalRefine ==
    /\ Committed
    /\ ~isRefining
    /\ Start(NewTask("global", 0, renderedSlides, 0, NoStatus))
    /\ isRefining' = TRUE
    /\ UNCHANGED <<slides, renderedSlides, slidesRef, uiVars,
                   generatingSlideIds, generatingBackgroundIds, isStylizing,
                   isEditingImage, pendingUploadImage, batchVars, svc, refineCall, expVars, theme>>

handleSlideRefine ==
    /\ Committed
    /\ ~isRefining
    /\ activeIndex # 0
    /\ Start(NewTask("slide", activeSlideId, renderedSlides, activeIndex,
                     NoStatus))
    /\ isRefining' = TRUE
    /\ UNCHANGED <<slides, renderedSlides, slidesRef, uiVars,
                   generatingSlideIds, generatingBackgroundIds, isStylizing,
                   isEditingImage, pendingUploadImage, batchVars, svc, refineCall, expVars, theme>>

\* the slides a refinement handler passes to onUpdateSlides (lines 526-527,
\* 545-546)
RefineWrite(task) == RefinedSlides(task.captured, task.index, task.t)

RefineDone ==
    \E task \in tasks : \E ok \in BOOLEAN :
        /\ task.kind \in {"global", "slide"}
        /\ slides' = IF ok THEN RefineWrite(task) ELSE slides
        /\ Finish(task, ok, ok, None, NoStatus)
        /\ isRefining' = FALSE
        /\ UNCHANGED <<renderedSlides, slidesRef, uiVars, nTasks,
                       generatingSlideIds, generatingBackgroundIds,
                       isStylizing, isEditingImage, pendingUploadImage,
                       batchVars, svc, refineCall, expVars, theme>>

\* ------------------------------------------------------- batch generation
storeVars == <<slides, renderedSlides, slidesRef, pendingUploadImage>>

\* the batch mode button (lines 1215-1226)
ToggleBatchMode ==
    /\ Committed
    /\ ~batchGenerating
    /\ last' = NoLast
    /\ batchMode' = ~batchMode
    /\ selectedSlideIds' = IF batchMode THEN {} ELSE selectedSlideIds
    /\ slideGenerationStatus' =
          IF batchMode THEN NoStatus ELSE slideGenerationStatus
    /\ UNCHANGED <<storeVars, uiVars, taskVars, batchGenerating, timers, svc, refineCall, expVars, theme>>

toggleSlideSelection ==
    /\ Committed
    /\ batchMode
    /\ last' = NoLast
    /\ \E id \in Ids(renderedSlides) :
          selectedSlideIds' =
             IF id \in selectedSlideIds THEN selectedSlideIds \ {id}
             ELSE selectedSlideIds \cup {id}
    /\ UNCHANGED <<storeVars, uiVars, taskVars, batchMode, batchGenerating,
                   slideGenerationStatus, timers, svc, refineCall, expVars, theme>>

toggleSelectAll ==
    /\ Committed
    /\ batchMode
    /\ last' = NoLast
    /\ selectedSlideIds' =
          IF Cardinality(selectedSlideIds) = Len(renderedSlides) THEN {}
          ELSE Ids(renderedSlides)
    /\ UNCHANGED <<storeVars, uiVars, taskVars, batchMode, batchGenerating,
                   slideGenerationStatus, timers, svc, refineCall, expVars, theme>>

\* a selected id that is not in the collection returns {success: false}
\* without a request (line 818); the others await generateSlideImage
InitialMembers(selected, captured) ==
    [id \in selected |->
        IF FindIndex(captured, id) = 0 THEN "error" ELSE "generating"]

handleBatchGenerateImages ==
    /\ Committed
    /\ batchMode
    /\ selectedSlideIds # {}
    /\ ~batchGenerating
    /\ Start(NewTask("batch", 0, renderedSlides, 0,
                     InitialMembers(selectedSlideIds, renderedSlides)))
    /\ batchGenerating' = TRUE
    /\ slideGenerationStatus' = [id \in selectedSlideIds |-> "generating"]
    /\ UNCHANGED <<storeVars, uiVars, generatingSlideIds,
                   generatingBackgroundIds, isStylizing, isEditingImage,
                   isRefining, batchMode, selectedSlideIds, timers, svc, refineCall, expVars, theme>>

\* one member's generateSlideImage resolves or rejects (lines 824-830)
BatchMemberSettle ==
    \E task \in tasks : \E id \in DOMAIN task.members : \E ok \in BOOLEAN :
        /\ task.kind = "batch"
        /\ task.members[id] = "generating"
        /\ tasks' = (tasks \ {task}) \cup
              {[task EXCEPT !.members[id] = IF ok THEN "success" ELSE "error"]}
        /\ last' = NoLast
        /\ UNCHANGED <<storeVars, uiVars, nTasks, generatingSlideIds,
                       generatingBackgroundIds, isStylizing, isEditingImage,
                       isRefining, batchVars, svc, refineCall, expVars, theme>>

\* variant: the continuation runs as soon as one member has settled
AnySettled(task) == \E id \in DOMAIN task.members : task.members[id] # "generating"

\* await Promise.allSettled(generationPromises)
AllSettled(task) == \A id \in DOMAIN task.members : task.members[id] # "generating"

\* const newSlides = [...slides] with the image of every successful member
BatchWrite(task) ==
    [i \in DOMAIN task.captured |->
        IF /\ task.captured[i].id \in DOMAIN task.members
           /\ task.members[task.captured[i].id] = "success"
        THEN [task.captured[i] EXCEPT
                 !.imageUrl = Token(task.t, task.captured[i].id, "batch")]
        ELSE task.captured[i]]

\* lines 836-870: the continuation of handleBatchGenerateImages
BatchJoin ==
    \E task \in tasks :
        /\ task.kind = "batch"
        /\ AllSettled(task)
        /\ slides' = BatchWrite(task)
        /\ slideGenerationStatus' = task.members
        /\ batchGenerating' = FALSE
        /\ timers' = timers + 1
        /\ Finish(task, TRUE, TRUE, None, task.members)
        /\ UNCHANGED <<renderedSlides, slidesRef, pendingUploadImage, uiVars,
                       nTasks, generatingSlideIds, generatingBackgroundIds,
                       isStylizing, isEditingImage, isRefining, batchMode,
                       selectedSlideIds, svc, refineCall, expVars, theme>>

\* the setTimeout callback of lines 866-870
ClearBatchStatus ==
    /\ timers > 0
    /\ timers' = timers - 1
    /\ slideGenerationStatus' = NoStatus
    /\ selectedSlideIds' = {}
    /\ batchMode' = FALSE
    /\ last' = NoLast
    /\ UNCHANGED <<storeVars, uiVars, taskVars, batchGenerating, svc, refineCall, expVars, theme>>

\* ------------------------------------------------------------- PNG export
\* Everything but the active slide and the export itself is left alone.
exportFrame == <<slides, renderedSlides, slidesRef, nextId, nEdits, tasks,
                 generatingSlideIds, generatingBackgroundIds, isStylizing,
                 isEditingImage, isRefining, batchVars, svc, refineCall,
                 theme>>

\* document.getElementById('preview-slide-capture'): the preview exists when
\* the active slide is one of the rendered slides
ElementPresent == activeIndex # 0

\* the states an <img> of the preview can be in when waitForImages looks at
\* it: loaded (complete, naturalHeight > 0), broken (complete after a load
\* error, naturalHeight = 0), or still loading
ImageStates == {"loaded", "broken", "loading"}

\* img.complete && img.naturalHeight > 0
CountsAtOnce(image) == image = "loaded"

InitiallyLoaded(images) ==
    Cardinality({a \in DOMAIN images : CountsAtOnce(images[a])})

\* variant: the timer never resolves the promise
TimeoutNever(clock) == FALSE

\* setTimeout(resolve, 3000)
TimeoutFires(clock) == clock = CeilingTimeout

\* variant: the catch block rethrows
CatchRethrows(err) == "raised"

\* catch (err) { console.error(...); return null }
CatchCapture(err) == "null"

\* captureSlide up to its first await: the element lookup and the body of the
\* promise of waitForImages
captureSlideBegin ==
    /\ capture.pc = "start"
    /\ IF ~ElementPresent
       THEN capture' = [capture EXCEPT !.pc = "done", !.result = "null"]
       ELSE \E n \in 0..MaxImages : \E images \in [1..n -> ImageStates] :
               capture' = [capture EXCEPT
                  !.images = images,
                  !.loaded = InitiallyLoaded(images),
                  !.clock = 0,
                  !.pc = IF n = 0 \/ InitiallyLoaded(images) >= n
                         THEN "rendering" ELSE "waiting"]
    /\ last' = NoLast
    /\ UNCHANGED <<exportFrame, activeSlideId, nTasks, pendingUploadImage,
                   isDownloading, export>>

\* img.onload or img.onerror of an image that was loading: checkDone
imageSettles ==
    /\ capture.pc = "waiting"
    /\ \E a \in DOMAIN capture.images : \E how \in {"loaded", "broken"} :
          /\ capture.images[a] = "loading"
          /\ capture' = [capture EXCEPT
                !.images[a] = how,
                !.loaded = @ + 1,
                !.pc = IF capture.loaded + 1 >= Len(capture.images)
                       THEN "rendering" ELSE "waiting"]
    /\ last' = NoLast
    /\ UNCHANGED <<exportFrame, activeSlideId, nTasks, pendingUploadImage,
                   isDownloading, export>>

\* a second passes during the wait
Tick ==
    /\ capture.pc = "waiting"
    /\ capture.clock < CeilingTimeout
    /\ capture' = [capture EXCEPT !.clock = @ + 1]
    /\ last' = NoLast
    /\ UNCHANGED <<exportFrame, activeSlideId, nTasks, pendingUploadImage,
                   isDownloading, export>>

waitTimeout ==
    /\ capture.pc = "waiting"
    /\ TimeoutFires(capture.clock)
    /\ capture' = [capture EXCEPT !.pc = "rendering"]
    /\ last' = NoLast
    /\ UNCHANGED <<exportFrame, activeSlideId, nTasks, pendingUploadImage,
                   isDownloading, export>>

\* htmlToImage.toPng, fetch and response.blob() succeed: the blob shows the
\* slide that is active
renderReturns ==
    /\ capture.pc = "rendering"
    /\ capture' = [capture EXCEPT !.pc = "done", !.result = "blob",
                                  !.shown = activeSlideId]
    /\ last' = NoLast
    /\ UNCHANGED <<exportFrame, activeSlideId, nTasks, pendingUploadImage,
                   isDownloading, export>>

\* one of them throws
renderThrows ==
    /\ capture.pc = "rendering"
    /\ capture' = [capture EXCEPT !.pc = "done",
                                  !.result = CatchCapture("err")]
    /\ last' = NoLast
    /\ UNCHANGED <<exportFrame, activeSlideId, nTasks, pendingUploadImage,
                   isDownloading, export>>

\* variant: the handlers have no guard
NeverRefused == FALSE

\* if (isDownloading) return
ExportRefused == isDownloading

Refuse ==
    /\ last' = [NoLast EXCEPT !.event = "exportRefused"]
    /\ UNCHANGED <<activeSlideId, pendingUploadImage, expVars>>

handleDownloadSlide ==
    /\ Committed
    /\ nTasks < MaxTasks
    /\ nTasks' = nTasks + 1
    /\ IF ExportRefused THEN Refuse
       ELSE /\ isDownloading' = TRUE
            /\ export' = [ExportIdle EXCEPT !.kind = "slide",
                                            !.pc = "capture"]
            /\ capture' = [CaptureIdle EXCEPT !.pc = "start"]
            /\ last' = NoLast
            /\ UNCHANGED <<activeSlideId, pendingUploadImage>>
    /\ UNCHANGED exportFrame

\* handleDownloadSlide after `await captureSlide()`; a rejected await leaves
\* the handler without reaching setIsDownloading(false)
DownloadSlideDone ==
    /\ export.kind = "slide"
    /\ export.pc = "capture"
    /\ capture.pc = "done"
    /\ IF capture.result = "raised"
       THEN /\ export' = [export EXCEPT !.pc = "aborted"]
            /\ UNCHANGED isDownloading
       ELSE /\ export' = [export EXCEPT
                  !.pc = "done",
                  !.results = <<capture.result>>,
                  !.saved = IF capture.result = "blob"
                            THEN <<capture.shown>> ELSE None,
                  !.notice = capture.result # "blob"]
            /\ isDownloading' = FALSE
    /\ capture' = CaptureIdle
    /\ last' = NoLast
    /\ UNCHANGED <<exportFrame, activeSlideId, nTasks, pendingUploadImage>>

\* variant: the active slide stays where the loop left it
StaysOnLastSlide(e) == activeSlideId

\* setActiveSlideId(originalActiveId)
RestoreTarget(e) == e.originalActiveId

\* setActiveSlideId(id), with the effect of lines 222-226
SetActive(id) ==
    /\ activeSlideId' = id
    /\ pendingUploadImage' =
          IF id # activeSlideId THEN FALSE ELSE pendingUploadImage

\* handleDownloadCarousel up to its first await: the first slide is made
\* active and the 300 ms timer is armed; with no slides the loop is skipped
handleDownloadCarousel ==
    /\ Committed
    /\ nTasks < MaxTasks
    /\ nTasks' = nTasks + 1
    /\ IF ExportRefused THEN Refuse
       ELSE /\ isDownloading' = TRUE
            /\ export' = [ExportIdle EXCEPT
                  !.kind = "carousel",
                  !.pc = IF Len(renderedSlides) = 0 THEN "zipping"
                         ELSE "delay",
                  !.i = 1,
                  !.captured = renderedSlides,
                  !.originalActiveId = activeSlideId]
            /\ SetActive(IF Len(renderedSlides) = 0 THEN activeSlideId
                         ELSE renderedSlides[1].id)
            /\ last' = NoLast
            /\ UNCHANGED capture
    /\ UNCHANGED exportFrame

\* the 300 ms timer fires and captureSlide is called
exportDelayElapsed ==
    /\ export.pc = "delay"
    /\ export' = [export EXCEPT !.pc = "capture"]
    /\ capture' = [CaptureIdle EXCEPT !.pc = "start"]
    /\ last' = NoLast
    /\ UNCHANGED <<exportFrame, activeSlideId, nTasks, pendingUploadImage,
                   isDownloading>>

\* variant: a new entry goes to the front of the archive
AddEntryFirst(zip, entry) == <<entry>> \o zip

\* zip.file(`slide-${i + 1}.png`, blob)
AddEntry(zip, entry) == Append(zip, entry)

\* variant: the loop ends at the first failed capture
LoopBreaksOnNull(i, n, result) ==
    IF i + 1 > n \/ result = "null" THEN "restore" ELSE "switch"

\* variant: the loop ends after its first slide
LoopEndsAfterFirst(i, n, result) == "restore"

\* for (let i = 0; i < slides.length; i++): "switch" when the loop goes on
\* to the next slide, "restore" when it is left
LoopContinues(i, n, result) == IF i + 1 > n THEN "restore" ELSE "switch"

\* the continuation of `await captureSlide()` in the loop: the entry is
\* added, and then either the next slide is made active and the timer armed,
\* or the loop is left, the original slide made active and
\* zip.generateAsync awaited
exportCaptured ==
    /\ export.kind = "carousel"
    /\ export.pc = "capture"
    /\ capture.pc = "done"
    /\ IF capture.result = "raised"
       THEN /\ export' = [export EXCEPT !.pc = "aborted"]
            /\ UNCHANGED <<activeSlideId, pendingUploadImage>>
       ELSE LET again == LoopContinues(export.i, Len(export.captured),
                                       capture.result) = "switch"
            IN  /\ export' = [export EXCEPT
                      !.zip = IF capture.result = "blob"
                              THEN AddEntry(@,
                                      [name |-> export.i,
                                       slide |-> export.captured[export.i].id,
                                       shown |-> capture.shown])
                              ELSE @,
                      !.results = Append(@, capture.result),
                      !.i = @ + 1,
                      !.pc = IF again THEN "delay" ELSE "zipping"]
                /\ SetActive(IF again THEN export.captured[export.i + 1].id
                             ELSE RestoreTarget(export))
    /\ capture' = CaptureIdle
    /\ last' = NoLast
    /\ UNCHANGED <<exportFrame, nTasks, isDownloading>>

\* zip.generateAsync resolves: saveAs and setIsDownloading(false)
exportFinish ==
    /\ export.pc = "zipping"
    /\ export' = [export EXCEPT !.pc = "done", !.saved = export.zip]
    /\ isDownloading' = FALSE
    /\ last' = NoLast
    /\ UNCHANGED <<exportFrame, activeSlideId, nTasks, pendingUploadImage,
                   capture>>

CaptureNext ==
    \/ captureSlideBegin
    \/ imageSettles
    \/ Tick
    \/ waitTimeout
    \/ renderReturns
    \/ renderThrows

ExportNext ==
    \/ CaptureNext
    \/ handleDownloadSlide
    \/ DownloadSlideDone
    \/ handleDownloadCarousel
    \/ exportDelayElapsed
    \/ exportCaptured
    \/ exportFinish
    \/ handleDeleteSlide
    \/ SelectSlide

\* ------------------------------------------- model fallback of the service
TEXT_MODEL_PRO == "gemini-3-pro-preview"
TEXT_MODEL_PRO_2_5 == "gemini-2.5-pro-preview-02-05"
TEXT_MODEL_FLASH == "gemini-2.5-flash"
IMAGE_MODEL_PRO == "gemini-3-pro-image-preview"
IMAGE_MODEL_FLASH == "gemini-2.5-flash-image"

TextOps == {"generateCarouselContent", "refineCarouselContent"}
ImageOps == {"generateSlideImage", "stylizeImage", "editImage"}

\* the models the selectors offer (App.tsx:373-375, Workspace.tsx:2687-2688)
TextModels == {TEXT_MODEL_PRO, TEXT_MODEL_PRO_2_5, TEXT_MODEL_FLASH}
ImageModels == {IMAGE_MODEL_PRO, IMAGE_MODEL_FLASH}

\* What an attempt on model m can throw.  A backend error carries a status
\* (the number 403 and 429 are written "403" and "429"; "none" is no status
\* field) and a message that may contain the text 403.
BackendErrors(m) ==
    {[cause |-> "backend", status |-> st, has403 |-> b, model |-> m] :
        st \in {"PERMISSION_DENIED", "403", "429", "none"}, b \in BOOLEAN}

\* JSON.parse of a malformed text (parseResponse), or extractImage finding no
\* inline data: thrown inside the same try as the backend call
ResponseError(m) ==
    [cause |-> "response", status |-> "none", has403 |-> FALSE, model |-> m]

AttemptErrors(m) == BackendErrors(m) \cup {ResponseError(m)}

\* variant: only the first tier falls back
TextFallbackModelFromProOnly(modelName) ==
    IF modelName = TEXT_MODEL_PRO THEN TEXT_MODEL_PRO_2_5 ELSE "null"

\* lines 405-411 and 584-589; "null" is the null of `fallbackModel`
TextFallbackModel(modelName) ==
    IF modelName = TEXT_MODEL_PRO THEN TEXT_MODEL_PRO_2_5
    ELSE IF modelName = TEXT_MODEL_PRO_2_5 THEN TEXT_MODEL_FLASH
    ELSE "null"

\* error?.status === 'PERMISSION_DENIED' || error?.status === 403 ||
\* error.message?.includes('403')
IsPermissionError(error) ==
    error.status = "PERMISSION_DENIED" \/ error.status = "403" \/ error.has403

\* variant: a permission error falls back to flash from any other model
ImageFallbackModelFromAny(modelName, error) ==
    IF modelName # IMAGE_MODEL_FLASH /\ IsPermissionError(error)
    THEN IMAGE_MODEL_FLASH
    ELSE "null"

ImageFallbackModel(modelName, error) ==
    IF modelName = IMAGE_MODEL_PRO /\ IsPermissionError(error)
    THEN IMAGE_MODEL_FLASH
    ELSE "null"

FallbackModel(op, modelName, error) ==
    IF op \in TextOps THEN TextFallbackModel(modelName)
    ELSE ImageFallbackModel(modelName, error)

\* variant: the catch throws a new error
RethrowGeneric(fallbackError) ==
    [cause |-> "generic", status |-> "none", has403 |-> FALSE,
     model |-> fallbackError.model]

\* catch (fallbackError) { ...; throw fallbackError } (lines 418-421, 663-666),
\* and the rejection of `return await refineCarouselContent(...)`
Rethrow(fallbackError) == fallbackError

svcCall ==
    /\ svc.pc = "idle"
    /\ \E op \in TextOps \cup ImageOps :
       \E m \in IF op \in TextOps THEN TextModels ELSE ImageModels :
          svc' = [SvcIdle EXCEPT !.op = op, !.start = m, !.model = m,
                                 !.pc = "attempt"]
    /\ UNCHANGED <<wsVars, refineCall>>

\* The model parameter is a string: a caller may pass a name that is not a
\* tier of the operation (a text operation given an image model, an image
\* operation given a text model, or any other name).
OtherModels(op) ==
    IF op \in TextOps THEN ImageModels \cup {"custom-model"}
    ELSE TextModels \cup {"custom-model"}

svcCallOther ==
    /\ svc.pc = "idle"
    /\ \E op \in TextOps \cup ImageOps : \E m \in OtherModels(op) :
          svc' = [SvcIdle EXCEPT !.op = op, !.start = m, !.model = m,
                                 !.pc = "attempt"]
    /\ UNCHANGED <<wsVars, refineCall>>

\* generate(model) resolves and parseResponse / extractImage returns
svcAttemptReturns ==
    /\ svc.pc = "attempt"
    /\ svc' = [svc EXCEPT
                  !.log = Append(@, [model |-> svc.model, ok |-> TRUE,
                                     error |-> None]),
                  !.result = <<svc.op, svc.model>>,
                  !.pc = "returned"]
    /\ UNCHANGED <<wsVars, refineCall>>

\* the try block throws: the catch falls back or throws
svcAttemptThrows ==
    /\ svc.pc = "attempt"
    /\ \E error \in AttemptErrors(svc.model) :
          LET entry == [model |-> svc.model, ok |-> FALSE, error |-> error]
              fallbackModel == FallbackModel(svc.op, svc.model, error)
          IN  IF fallbackModel # "null"
              THEN svc' = [svc EXCEPT !.log = Append(@, entry),
                                      !.model = fallbackModel]
              ELSE svc' = [svc EXCEPT
                              !.log = Append(@, entry),
                              !.error = IF svc.log = <<>> THEN error
                                        ELSE Rethrow(error),
                              !.pc = "raised"]
    /\ UNCHANGED <<wsVars, refineCall>>

\* the caller has handled the outcome; the next call may start
svcDone ==
    /\ svc.pc \in {"returned", "raised"}
    /\ svc' = SvcIdle
    /\ UNCHANGED <<wsVars, refineCall>>

SvcNext == svcCall \/ svcAttemptReturns \/ svcAttemptThrows \/ svcDone

SvcAnyNext == SvcNext \/ svcCallOther

\* --------------------------------- parseResponse of refineCarouselContent
\* A slide as the service sees it.  All fields are strings here: a field of
\* the response that is absent is "undefined".
Undefined == "undefined"

FrameSlide(id, shows) ==
    [id |-> id, type |-> "CONTENT", content |-> "old", showImage |-> shows,
     imagePrompt |-> "old prompt", imageUrl |-> "image",
     backgroundImageUrl |-> "background"]

\* the slide lists a call is made with: ids are not in ascending order
FrameId(i) == IF i = 1 THEN 2 ELSE IF i = 2 THEN 1 ELSE i

FrameInputs ==
    {[i \in 1..n |-> FrameSlide(FrameId(i), shows)] :
        n \in 1..MaxRefined, shows \in {"true", "false"}}

\* one slide object of the backend's JSON: complete, empty, and with absent
\* or empty fields
NoEntry ==
    [type |-> Undefined, content |-> Undefined, needsImage |-> Undefined,
     suggestedImagePrompt |-> Undefined]

FrameEntries ==
    { [type |-> "CTA", content |-> "new", needsImage |-> "false",
       suggestedImagePrompt |-> "new prompt"],
      NoEntry,
      [type |-> "", content |-> "new", needsImage |-> Undefined,
       suggestedImagePrompt |-> Undefined],
      [type |-> "COVER", content |-> "", needsImage |-> "true",
       suggestedImagePrompt |-> ""] }

\* variant: the response's value is taken as it is
TakeNew(a, b) == a

\* a || b
OrElse(a, b) == IF a \in {Undefined, ""} THEN b ELSE a

\* a ?? b
Coalesce(a, b) == IF a = Undefined THEN b ELSE a

\* refinedSlides[i]?.field: the entry at (0-based) position i - 1, if any
EntryAt(refinedSlides, i) ==
    IF i \in DOMAIN refinedSlides THEN refinedSlides[i] ELSE NoEntry

\* {...original, type: ..., content: ..., showImage: ..., imagePrompt: ...}
Merge(original, e) ==
    [original EXCEPT
        !.type = OrElse(e.type, original.type),
        !.content = OrElse(e.content, original.content),
        !.showImage = Coalesce(e.needsImage, original.showImage),
        !.imagePrompt = OrElse(e.suggestedImagePrompt, original.imagePrompt)]

\* parseResponse (lines 548-575); slideIndex 0 is `undefined` (global), and
\* k + 1 is the index k of the source
ParseResponse(inSlides, slideIndex, json) ==
    IF slideIndex = 0
    THEN LET refinedSlides == IF json.hasSlides THEN json.slides ELSE <<>>
         IN  [i \in DOMAIN inSlides |->
                 Merge(inSlides[i], EntryAt(refinedSlides, i))]
    ELSE [i \in DOMAIN inSlides |->
             IF i # slideIndex THEN inSlides[i]
             ELSE Merge(inSlides[i], json.entry)]

\* the responses a backend may give to a global call for n slides: no slides
\* field, or a list that is shorter than, as long as or longer than the input
GlobalResponses(n) ==
    {[hasSlides |-> FALSE, slides |-> <<>>, entry |-> NoEntry]} \cup
    {[hasSlides |-> TRUE, slides |-> r, entry |-> NoEntry] :
        r \in UNION {[1..k -> FrameEntries] : k \in 0..(n + 1)}}

SlideResponses ==
    {[hasSlides |-> FALSE, slides |-> <<>>, entry |-> e] : e \in FrameEntries}

\* refineCarouselContent is called and generate(modelName) resolves
refineResponse ==
    /\ refineCall.pc = "idle"
    /\ \E inSlides \in FrameInputs : \E slideIndex \in 0..Len(inSlides) :
       \E json \in IF slideIndex = 0 THEN GlobalResponses(Len(inSlides))
                   ELSE SlideResponses :
          refineCall' = [pc |-> "parsing", slides |-> inSlides,
                         slideIndex |-> slideIndex, json |-> json,
                         out |-> <<>>]
    /\ UNCHANGED <<wsVars, svc>>

\* return parseResponse(response)
parseResponse ==
    /\ refineCall.pc = "parsing"
    /\ refineCall' = [refineCall EXCEPT
          !.pc = "returned",
          !.out = ParseResponse(refineCall.slides, refineCall.slideIndex,
                                refineCall.json)]
    /\ UNCHANGED <<wsVars, svc>>

RefineFrameNext == refineResponse \/ parseResponse

\* ---------------------------------------------------------- specifications
EditNext ==
    \/ Commit
    \/ handleTextChange
    \/ handleDeleteSlide
    \/ handleAddSlide
    \/ SelectSlide
    \/ handleImportProject

GenNext ==
    \/ EditNext
    \/ handleFileUpload
    \/ handleGenerateImage
    \/ GenerateImageDone
    \/ handleGenerateBackgroundImage
    \/ GenerateBackgroundImageDone
    \/ handleStylizeImage
    \/ StylizeImageDone
    \/ handleEditImage
    \/ EditImageDone

RefineNext ==
    \/ EditNext
    \/ handleGlobalRefine
    \/ handleSlideRefine
    \/ RefineDone

\* (in batch mode the slide list does not select, line 1273)
BatchNext ==
    \/ Commit
    \/ handleTextChange
    \/ handleDeleteSlide
    \/ handleAddSlide
    \/ handleImportProject
    \/ ToggleBatchMode
    \/ toggleSlideSelection
    \/ toggleSelectAll
    \/ handleBatchGenerateImages
    \/ BatchMemberSettle
    \/ BatchJoin
    \/ ClearBatchStatus

\* a batch together with single-slide image generation
MixedNext ==
    \/ BatchNext
    \/ handleGenerateImage
    \/ GenerateImageDone
    \/ handleFileUpload
    \/ handleStylizeImage
    \/ StylizeImageDone

Next ==
    \/ GenNext \/ RefineNext \/ BatchNext \/ MixedNext \/ ExportNext
    \/ SvcAnyNext \/ RefineFrameNext

Spec == Init /\ [][Next]_vars

SpecGen == Init /\ [][GenNext]_vars

SpecRefine == Init /\ [][RefineNext]_vars

SpecBatch == Init /\ [][BatchNext]_vars

SpecMixed == Init /\ [][MixedNext]_vars

SpecFallback == Init /\ [][SvcNext]_vars

SpecExport == Init /\ [][ExportNext]_vars

SpecFallbackAny == Init /\ [][SvcAnyNext]_vars

SpecRefineFrame == Init /\ [][RefineFrameNext]_vars

\* A backend call resolves or rejects.
FairSpecFallbackAny ==
    SpecFallbackAny /\ WF_vars(svcAttemptReturns \/ svcAttemptThrows)

\* Timers fire, continuations whose promise has settled are run, and the
\* renderer's promise resolves or rejects.  Nothing is assumed of the images.
FairSpecExport ==
    /\ SpecExport
    /\ WF_vars(captureSlideBegin)
    /\ WF_vars(Tick)
    /\ WF_vars(waitTimeout)
    /\ WF_vars(renderReturns \/ renderThrows)
    /\ WF_vars(DownloadSlideDone)
    /\ WF_vars(exportDelayElapsed)
    /\ WF_vars(exportCaptured)
    /\ WF_vars(exportFinish)

\* Every member request resolves or rejects, and a continuation whose promise
\* has settled is run by the event loop.
FairSpecBatch ==
    SpecBatch /\ WF_vars(BatchMemberSettle) /\ WF_vars(BatchJoin)

\* -------------------------------------------------------------- properties
\* A step is the completion of a task exactly when it sets `last`.
Completes == last'.kind # "none" /\ last' # last

\* the field a task of the given kind produces
OwnsImage(kind) == kind \in {"image", "stylize", "edit", "batch"}
OwnsBackground(kind) == kind = "background"
OwnsContent(kind) == kind \in {"global", "slide"}

\* slide `new` is slide `old` except, at most, for the field that a task of
\* the given kind started for these targets produces
SameButResult(old, new, kind, targets) ==
    /\ new.id = old.id
    /\ (old.id \notin targets => new = old)
    /\ (~OwnsImage(kind) => new.imageUrl = old.imageUrl)
    /\ (~OwnsBackground(kind) => new.backgroundImageUrl = old.backgroundImageUrl)
    /\ (~OwnsContent(kind) => new.content = old.content)

\* C1 (reconciliation safety): when a task completes and one of the slides
\* it was started for has been removed from the store in the meantime, the
\* set of slide ids in the store after the completion equals the set just
\* before it: the removed slide is not put back.
C1_ReconciliationSafety ==
    [][(Completes /\ \E id \in last'.targets : id \notin Ids(slides))
         => Ids(slides') = Ids(slides)]_vars

\* C2 (no stale clobber): the write of a completing task is computed from the
\* store as it is at completion: the store after the write has the slides of
\* the store before it, in the same order, and differs from it at most in
\* the field the task produces on the slides the task was started for, so
\* that every edit the user made since the task started is still there.
C2_NoStaleClobber ==
    [][(Completes /\ last'.wrote)
         => /\ Len(slides') = Len(slides)
            /\ \A i \in DOMAIN slides :
                  SameButResult(slides[i], slides'[i], last'.kind,
                                last'.targets)]_vars

\* the task that produced an image or a background
Producer(image) == image[1]

\* task number t was in flight together with the task completing in this step
ConcurrentWithLast(t) == t > last'.t \/ t \in last'.peers

\* C3 (no lost update between concurrent tasks): when a generation task for
\* one slide completes with success, the image and the background that a
\* concurrent generation task has written to another slide are still in the
\* store afterwards.
C3_NoLostUpdate ==
    [][(Completes /\ last'.ok /\ last'.kind \in {"image", "background"})
         => \A i \in DOMAIN slides :
               LET y == slides[i] IN
               /\ y.id # last'.slideId
               /\ \/ /\ y.imageUrl # None
                     /\ y.imageUrl[3] = "image"
                     /\ ConcurrentWithLast(Producer(y.imageUrl))
                  \/ /\ y.backgroundImageUrl # None
                     /\ ConcurrentWithLast(Producer(y.backgroundImageUrl))
               => /\ y.id \in Ids(slides')
                  /\ SlideOf(slides', y.id).imageUrl = y.imageUrl
                  /\ SlideOf(slides', y.id).backgroundImageUrl =
                        y.backgroundImageUrl]_vars

\* the field of a slide that a task of the given kind produces
ResultField(slide, kind) ==
    IF OwnsBackground(kind) THEN slide.backgroundImageUrl ELSE slide.imageUrl

\* the slides a completion applied a result to
Written(l) ==
    IF ~l.wrote THEN {}
    ELSE IF l.kind = "batch"
         THEN {id \in DOMAIN l.members : l.members[id] = "success"}
         ELSE {l.slideId}

ImageKinds == {"image", "background", "stylize", "edit", "batch"}

C5_IdKeyedApplication ==
    /\ \A i \in DOMAIN slides :
          /\ slides[i].imageUrl # None => slides[i].imageUrl[2] = slides[i].id
          /\ slides[i].backgroundImageUrl # None
                => slides[i].backgroundImageUrl[2] = slides[i].id
    /\ (last.wrote /\ last.kind \in {"image", "background", "stylize", "edit"})
          => /\ last.slideId \in Ids(slides)
             /\ ResultField(SlideOf(slides, last.slideId), last.kind) =
                   Token(last.t, last.slideId, last.kind)

\* the result was applied after the slide had moved in the collection and
\* the user had switched to another slide
C5_Witness ==
    /\ last.wrote
    /\ last.kind \in {"image", "background", "stylize", "edit"}
    /\ FindIndex(slides, last.slideId) # last.index
    /\ activeSlideId # last.slideId
    /\ ResultField(SlideOf(slides, last.slideId), last.kind) =
          Token(last.t, last.slideId, last.kind)

\* C6 (batch independence): when a batch ends, every member whose request
\* succeeded is reported "success" and has its image in the store, and every
\* member whose request failed is reported "error" and its slide is in the
\* store as it was just before.
C6_BatchIndependence ==
    [][(Completes /\ last'.kind = "batch")
         => \A id \in DOMAIN last'.members :
               /\ slideGenerationStatus'[id] = last'.members[id]
               /\ last'.members[id] = "success"
                     => /\ id \in Ids(slides')
                        /\ SlideOf(slides', id).imageUrl =
                              Token(last'.t, id, "batch")
               /\ (last'.members[id] = "error" /\ id \in Ids(slides))
                     => /\ id \in Ids(slides')
                        /\ SlideOf(slides', id) = SlideOf(slides, id)]_vars

\* C7 (batch definite end): a launched batch eventually has batchGenerating
\* false; the step that sets it false is taken only when every member has
\* settled; and while batchGenerating is false no status is "generating".
C7_BatchDefiniteEnd ==
    /\ batchGenerating ~> ~batchGenerating
    /\ [][(batchGenerating /\ ~batchGenerating')
            => \A task \in tasks :
                  task.kind = "batch" =>
                     /\ \A id \in DOMAIN task.members :
                           task.members[id] \in {"success", "error"}
                     /\ DOMAIN slideGenerationStatus' = DOMAIN task.members
                     /\ slideGenerationStatus' = task.members
           ]_vars
    /\ [](~batchGenerating
            => \A id \in DOMAIN slideGenerationStatus :
                  slideGenerationStatus[id] # "generating")

\* a batch of a failing and a succeeding member has ended
C7_Witness ==
    /\ last.kind = "batch"
    /\ ~batchGenerating
    /\ \E a, b \in DOMAIN slideGenerationStatus :
          /\ slideGenerationStatus[a] = "success"
          /\ slideGenerationStatus[b] = "error"

\* the ordered list of text tiers, and its part from model m down to flash
TextTiers == <<TEXT_MODEL_PRO, TEXT_MODEL_PRO_2_5, TEXT_MODEL_FLASH>>

TiersFrom(m) ==
    SubSeq(TextTiers, CHOOSE i \in DOMAIN TextTiers : TextTiers[i] = m,
           Len(TextTiers))

Failed(log) == \A i \in DOMAIN log : ~log[i].ok

\* C8 (unconditional text fallback chain): in generateCarouselContent and
\* refineCarouselContent the attempts are made on the tiers from the starting
\* one downwards, in order; every failed attempt that has a next tier, of
\* whatever error, is followed by the attempt on that tier; the operation
\* returns the result of the first tier that succeeds, and raises only when
\* every tier from the starting one down to flash has failed.
C8_TextFallbackChain ==
    svc.op \in TextOps =>
        LET tiers == TiersFrom(svc.start)
            n == Len(svc.log)
        IN  /\ n <= Len(tiers)
            /\ \A i \in 1..n : svc.log[i].model = tiers[i]
            /\ Failed(SubSeq(svc.log, 1, n - 1))
            /\ svc.pc = "attempt"
                  => /\ Failed(svc.log)
                     /\ n < Len(tiers)
                     /\ svc.model = tiers[n + 1]
            /\ svc.pc = "returned"
                  => /\ n >= 1
                     /\ svc.log[n].ok
                     /\ svc.result = <<svc.op, tiers[n]>>
            /\ svc.pc = "raised"
                  => /\ n = Len(tiers)
                     /\ Failed(svc.log)
                     /\ svc.log[n].model = TEXT_MODEL_FLASH

\* started on pro, a malformed response and a rate limit error later the
\* flash tier's result is returned
C8_Witness ==
    /\ svc.op \in TextOps
    /\ svc.start = TEXT_MODEL_PRO
    /\ svc.pc = "returned"
    /\ Len(svc.log) = 3
    /\ svc.log[1].error.cause = "response"
    /\ svc.log[2].error.status = "429"
    /\ svc.result = <<svc.op, TEXT_MODEL_FLASH>>

\* The class of an error is what its status says; an error without a status
\* is classified by its message.
AuthorizationClass(error) ==
    \/ error.status \in {"PERMISSION_DENIED", "403"}
    \/ error.status = "none" /\ error.has403

\* the first attempt of an image operation failed on pro with an error of
\* the authorization class
FirstFailedOnPermission ==
    /\ svc.log[1].model = IMAGE_MODEL_PRO
    /\ ~svc.log[1].ok
    /\ AuthorizationClass(svc.log[1].error)

\* C9 (permission-gated image fallback): in generateSlideImage, stylizeImage
\* and editImage a second attempt is made, on IMAGE_MODEL_FLASH, if and only
\* if the first attempt was on IMAGE_MODEL_PRO and failed with an error of the
\* authorization class; then the flash result is returned when flash
\* succeeds; after a failure of the first attempt of any other class (rate
\* limit, malformed request, network) there is that one backend call and the
\* error raised is the error of that call.
C9_PermissionGatedImageFallback ==
    (svc.op \in ImageOps /\ Len(svc.log) >= 1) =>
        LET n == Len(svc.log)
            second == n = 2 \/ (n = 1 /\ svc.pc = "attempt")
        IN  /\ n <= 2
            /\ svc.log[1].model = svc.start
            /\ second <=> FirstFailedOnPermission
            /\ second => svc.model = IMAGE_MODEL_FLASH
            /\ n = 2 => svc.log[2].model = IMAGE_MODEL_FLASH
            /\ (n = 2 /\ svc.log[2].ok)
                  => /\ svc.pc = "returned"
                     /\ svc.result = <<svc.op, IMAGE_MODEL_FLASH>>
            /\ (~svc.log[1].ok /\ ~FirstFailedOnPermission)
                  => /\ n = 1
                     /\ svc.pc = "raised"
                     /\ svc.error = svc.log[1].error

\* C10 (fallback exhaustion): when an operation raises, the error raised is
\* the error of its last attempt, unchanged; for the text chain, and for an
\* image operation that fell back from pro, that attempt is the one on flash.
C10_FallbackExhaustion ==
    svc.pc = "raised" =>
        LET n == Len(svc.log) IN
        /\ n >= 1
        /\ Failed(svc.log)
        /\ svc.error = svc.log[n].error
        /\ svc.error.model = svc.log[n].model
        /\ svc.op \in TextOps => svc.log[n].model = TEXT_MODEL_FLASH
        /\ (svc.op \in ImageOps /\ n = 2)
              => svc.log[n].model = IMAGE_MODEL_FLASH

\* an earlier tier failed with another error than the flash tier, and the
\* flash tier's error was raised
C10_Witness ==
    /\ svc.pc = "raised"
    /\ Len(svc.log) >= 2
    /\ svc.log[1].error.status = "PERMISSION_DENIED"
    /\ svc.log[Len(svc.log)].error.status = "429"
    /\ svc.error = svc.log[Len(svc.log)].error

\* C11 (export ordering): the entries of the archive of a full-sequence
\* export are in the order the slide collection had when the export began:
\* entry number k is named after a later position than entry k - 1, and is
\* the entry of the slide at that position.
C11_ExportOrdering ==
    export.kind = "carousel" =>
        /\ \A k \in DOMAIN export.zip :
              /\ export.zip[k].name \in DOMAIN export.captured
              /\ export.zip[k].slide = export.captured[export.zip[k].name].id
        /\ \A k, l \in DOMAIN export.zip :
              k < l => export.zip[k].name < export.zip[l].name

\* an export of three slides has saved an archive with an entry for each
C11_Witness ==
    /\ export.kind = "carousel"
    /\ export.pc = "done"
    /\ Len(export.zip) = Len(export.captured)
    /\ Len(export.zip) >= 3
    /\ export.saved = export.zip

\* the positions that have an entry in the archive
EntryNames(zip) == {zip[k].name : k \in DOMAIN zip}

\* C12 (export partial failure): a full-sequence export in which captures
\* fail still visits every slide, has an entry for exactly the slides whose
\* capture succeeded, saves the archive, and ends with isDownloading false:
\* it neither aborts nor hangs.
C12_ExportPartialFailure ==
    /\ [](export.kind = "carousel" =>
            /\ export.pc # "aborted"
            /\ export.pc \in {"zipping", "done"} =>
                  /\ Len(export.results) = Len(export.captured)
                  /\ EntryNames(export.zip) =
                        {i \in DOMAIN export.results :
                            export.results[i] = "blob"}
            /\ export.pc = "done" =>
                  /\ export.saved = export.zip
                  /\ ~isDownloading)
    /\ (isDownloading /\ export.kind = "carousel")
          ~> (~isDownloading /\ export.pc = "done")

\* the capture of the second of three slides failed, and the archive with
\* the first and the third was saved
C12_Witness ==
    /\ export.kind = "carousel"
    /\ export.pc = "done"
    /\ export.results = <<"blob", "null", "blob">>
    /\ EntryNames(export.saved) = {1, 3}
    /\ ~isDownloading

\* C13 (export restores position): a full-sequence export remembers the
\* slide that is active when it begins, and the step that follows the loop
\* makes that slide the active one again.
C13_ExportRestoresPosition ==
    /\ [][(export'.kind = "carousel" /\ export'.pc # export.pc
             /\ export.pc \in {"idle", "done"})
            => export'.originalActiveId = activeSlideId]_vars
    /\ [][(export.pc = "capture" /\ export'.pc = "zipping")
            => activeSlideId' = export.originalActiveId]_vars

\* the loop has left another slide active than the one the export began on,
\* and the export has put the first one back
C13_Witness ==
    /\ export.kind = "carousel"
    /\ export.pc = "zipping"
    /\ Len(export.results) = Len(export.captured)
    /\ export.captured[Len(export.captured)].id # export.originalActiveId
    /\ activeSlideId = export.originalActiveId

\* C14 (asset-wait bound): the wait for the images of the preview never lasts
\* longer than CeilingTimeout; also with an image that never fires load or
\* error the wait ends, the renderer is called, and the capture ends.
C14_AssetWaitBound ==
    /\ [](capture.pc = "waiting" => capture.clock <= CeilingTimeout)
    /\ (capture.pc = "waiting") ~> (capture.pc = "rendering")
    /\ (capture.pc = "rendering") ~> (capture.pc = "done")

\* the timeout has ended a wait in which an image was still loading
C14_Witness ==
    /\ capture.pc = "rendering"
    /\ capture.clock = CeilingTimeout
    /\ \E a \in DOMAIN capture.images : capture.images[a] = "loading"

\* an image is settled when it has loaded or has ended with a load error
Settled(image) == image \in {"loaded", "broken"}

\* C15 (asset settling): an image that ended with a load error counts as
\* settled like a loaded one, whether the error came before or during the
\* wait, so the pipeline is waiting only while some image of the preview is
\* not settled.
C15_AssetSettling ==
    capture.pc = "waiting"
        => \E a \in DOMAIN capture.images : ~Settled(capture.images[a])

\* C16 (capture failure is a value): captureSlide ends with a blob or with
\* null and never with an error thrown to its caller, so no export handler is
\* cut short; a single-slide download whose capture returned null reports it
\* and saves nothing, and releases isDownloading.
C16_CaptureFailureIsAValue ==
    /\ capture.result \in {"none", "blob", "null"}
    /\ capture.pc = "done" => capture.result \in {"blob", "null"}
    /\ export.pc # "aborted"
    /\ (export.kind = "slide" /\ export.pc = "done"
          /\ export.results = <<"null">>)
          => /\ export.notice
             /\ export.saved = None
             /\ ~isDownloading

\* the renderer threw after the wait for an image, and captureSlide has
\* returned null
C16_Witness ==
    /\ capture.pc = "done"
    /\ capture.result = "null"
    /\ Len(capture.images) > 0

\* C17 (empty-archive notice): when a full-sequence export has ended, the
\* user has been shown a notice of capture failure exactly if the archive has
\* no entries.
C17_EmptyArchiveNotice ==
    (export.kind = "carousel" /\ export.pc = "done")
        => (export.notice <=> export.zip = <<>>)

\* the ids of a collection in their order
IdOrder(s) == [i \in DOMAIN s |-> s[i].id]

\* C18 (atomic restore): once the store holds the slide list of an imported
\* project, the completion of a request started before the import leaves the
\* store with the slides of that project, in their order: no slide of the
\* project that was open before comes back.
C18_AtomicRestore ==
    [][(Completes /\ slides \in Projects) => IdOrder(slides') = IdOrder(slides)]_vars

SingleKinds == {"image", "background", "stylize", "edit"}

\* the running indicator of the task that completed in this step is clear
IndicatorCleared ==
    /\ last'.kind = "image" => last'.slideId \notin generatingSlideIds'
    /\ last'.kind = "background" => last'.slideId \notin generatingBackgroundIds'
    /\ last'.kind = "stylize" => ~isStylizing'
    /\ last'.kind = "edit" => ~isEditingImage'

\* C19 (silent discard): when a single-slide request succeeds and the slide
\* it was made for is not in the store at that moment, the handler writes
\* nothing to the store and clears the running indicator of the task.
C19_SilentDiscard ==
    [][(Completes /\ last'.ok /\ last'.kind \in SingleKinds
          /\ last'.slideId \notin Ids(slides))
         => (slides' = slides /\ ~last'.wrote /\ IndicatorCleared)]_vars

\* C20 (batch status lifetime): while a batch is running no step clears its
\* status entries or leaves batch mode; they are cleared only after the batch
\* has ended.
C20_BatchStatusLifetime ==
    [][(batchGenerating /\ batchGenerating')
         => (slideGenerationStatus' # NoStatus /\ batchMode')]_vars

\* the order in which a full-sequence export goes through its steps, and a
\* call of captureSlide through its own
ExportStepOrder ==
    {<<"delay", "capture">>, <<"capture", "delay">>, <<"capture", "zipping">>,
     <<"zipping", "done">>, <<"done", "delay">>}

CaptureStepOrder ==
    {<<"idle", "start">>, <<"start", "waiting">>, <<"start", "rendering">>,
     <<"start", "done">>, <<"waiting", "rendering">>,
     <<"rendering", "done">>, <<"done", "idle">>}

\* C21 (strictly sequential export): a full-sequence export takes, for each
\* slide in turn, the steps set-active, settle delay, asset wait, capture;
\* slide i is made active only when the captures of the i - 1 slides before
\* it have ended, a capture is in progress only in the capture step of the
\* one slide being visited, and the archive is finalized only when every
\* slide of the start-time order has been attempted.
C21_StrictlySequentialExport ==
    /\ [](/\ capture.pc # "idle" => export.pc = "capture"
          /\ export.kind = "carousel" =>
                /\ export.pc \in {"delay", "capture"} =>
                      /\ export.i \in DOMAIN export.captured
                      /\ Len(export.results) = export.i - 1
                /\ export.pc \in {"zipping", "done"} =>
                      Len(export.results) = Len(export.captured))
    /\ [][(export.kind = "carousel" /\ export'.kind = "carousel"
             /\ export'.pc # export.pc)
            => <<export.pc, export'.pc>> \in ExportStepOrder]_vars
    /\ [][capture'.pc # capture.pc
            => <<capture.pc, capture'.pc>> \in CaptureStepOrder]_vars

\* the second slide's images are waited for after the first slide's capture
\* has ended with a snapshot
C21_Witness ==
    /\ export.kind = "carousel"
    /\ export.pc = "capture"
    /\ export.i = 2
    /\ export.results = <<"blob">>
    /\ capture.pc = "waiting"

\* C22 (single-slide failure handling): when a single-slide image
\* generation, background generation, stylization or image edit ends with its
\* request failed, the handler has shown a failure message, the store is as
\* it was just before, and the running indicator of the task is clear.
C22_SingleSlideFailure ==
    [][(Completes /\ ~last'.ok /\ last'.kind \in SingleKinds)
         => /\ last'.alert
            /\ ~last'.wrote
            /\ slides' = slides
            /\ IndicatorCleared]_vars

\* a generation failed on a slide that a concurrent task had given a
\* background, and the slide can be generated for again
C22_Witness ==
    /\ last.kind = "image"
    /\ ~last.ok
    /\ last.alert
    /\ last.slideId \in Ids(slides)
    /\ SlideOf(slides, last.slideId).imageUrl = None
    /\ SlideOf(slides, last.slideId).backgroundImageUrl # None
    /\ last.slideId \notin generatingSlideIds

\* the single-slide image generation tasks in flight
ImageTasks == {task \in tasks : task.kind = "image"}

\* C23 (one task of a kind per slide): no two single-slide image generation
\* tasks in flight are for the same slide id, and generatingSlideIds holds
\* exactly the ids that have such a task in flight: an id enters it when its
\* task starts and leaves it when that task completes.
C23_OneTaskPerSlide ==
    /\ \A a, b \in ImageTasks : a.slideId = b.slideId => a = b
    /\ generatingSlideIds = {task.slideId : task \in ImageTasks}

\* image generation is in flight for two slides at once
C23_Witness ==
    /\ Cardinality(ImageTasks) = 2
    /\ Cardinality(generatingSlideIds) = 2

\* C24 (archive entry matches its slide): every entry of the archive of a
\* full-sequence export shows the slide it is named after, the slide at that
\* position of the start-time order, whatever the user does while the export
\* loop is suspended.
C24_EntryMatchesSlide ==
    export.kind = "carousel" =>
        \A k \in DOMAIN export.zip : export.zip[k].shown = export.zip[k].slide

\* C25 (active slide validity): in every reachable state activeSlideId is
\* the id of a slide of the collection.
C25_ActiveSlideValid == activeSlideId \in Ids(slides)

\* C26 (non-empty collection): the collection has at least one slide in every
\* reachable state, and a delete removes exactly the active slide, keeps the
\* order of the others and makes the first of them active (with one slide
\* left the delete changes nothing, which is no step).
C26_NonEmptyCollection ==
    /\ [](Len(slides) >= 1)
    /\ [][handleDeleteSlide
            => /\ slides' = Filter(slides, activeSlideId)
               /\ Len(slides') = Len(slides) - 1
               /\ activeSlideId' = slides'[1].id]_vars

\* C27 (export mutual exclusion): isDownloading is true exactly while an
\* export is in progress, a capture runs only within one, and an export
\* request handled while isDownloading is true changes neither the active
\* slide, nor the export and its archive, nor isDownloading.
C27_ExportMutualExclusion ==
    /\ [](/\ isDownloading <=> export.pc \notin {"idle", "done"}
          /\ capture.pc # "idle" => isDownloading)
    /\ [][(isDownloading /\ (handleDownloadSlide \/ handleDownloadCarousel))
            => UNCHANGED <<activeSlideId, export, capture, isDownloading>>]_vars

\* a request was refused while the loop of a full-sequence export was
\* capturing a slide
C27_Witness ==
    /\ last.event = "exportRefused"
    /\ isDownloading
    /\ export.kind = "carousel"
    /\ export.pc = "capture"
    /\ capture.pc = "waiting"

ImageTiers == <<IMAGE_MODEL_PRO, IMAGE_MODEL_FLASH>>

\* the tier list of an operation, and the position of a model in it (0 for
\* a model that is not a tier of the operation)
TiersOf(op) == IF op \in TextOps THEN TextTiers ELSE ImageTiers

Rank(op, m) ==
    IF \E i \in DOMAIN TiersOf(op) : TiersOf(op)[i] = m
    THEN CHOOSE i \in DOMAIN TiersOf(op) : TiersOf(op)[i] = m
    ELSE 0

\* the operation was started on its lowest tier or on a model outside its
\* tier list
StartedWithoutLowerTier ==
    Rank(svc.op, svc.start) \in {0, Len(TiersOf(svc.op))}

\* C28 (bounded, monotone fallback): a text operation makes at most 3
\* backend attempts and an image operation at most 2; the attempts of an
\* operation are on different models, each on a lower tier than the one
\* before; an operation started on the lowest tier or on a model outside the
\* tier list makes one attempt, whatever the error; and every operation ends,
\* returning or raising.
C28_BoundedMonotoneFallback ==
    /\ [](svc.op # "none" =>
            LET n == Len(svc.log)
                attempted == [i \in 1..n |-> svc.log[i].model] \o
                             (IF svc.pc = "attempt" THEN <<svc.model>>
                              ELSE <<>>)
            IN  /\ Len(attempted) <= Len(TiersOf(svc.op))
                /\ \A i, j \in DOMAIN attempted :
                      i < j => /\ attempted[i] # attempted[j]
                               /\ Rank(svc.op, attempted[i]) <
                                     Rank(svc.op, attempted[j])
                /\ StartedWithoutLowerTier => Len(attempted) = 1)
    /\ (svc.pc = "attempt") ~> (svc.pc \in {"returned", "raised"})

\* a text operation started on the first tier has raised after three failed
\* attempts
C28_Witness ==
    /\ svc.op \in TextOps
    /\ svc.start = TEXT_MODEL_PRO
    /\ svc.pc = "raised"
    /\ Len(svc.log) = 3

\* the files that cannot be parsed or have no slides array
InvalidFiles == {"noSlides", "unparsable"}

\* C29 (failed import changes nothing): the import of a file that cannot be
\* parsed or that has no slides array shows the failure message and leaves
\* the collection, the theme setting and the active slide as they were.
C29_FailedImportChangesNothing ==
    [][(handleImportProject /\ last'.event \in InvalidFiles)
         => /\ last'.alert
            /\ slides' = slides
            /\ theme' = theme
            /\ activeSlideId' = activeSlideId
            /\ pendingUploadImage' = pendingUploadImage]_vars

\* the import of a file that carries a theme but no slides array has failed
\* while a refinement was in flight
C29_Witness ==
    /\ last.event = "noSlides"
    /\ last.alert
    /\ theme = "LIGHT"
    /\ IdOrder(slides) = <<1, 2, 3>>
    /\ activeSlideId = 1
    /\ tasks # {}

\* the fields a refinement may change
SameButRefined(old, new) ==
    /\ new.id = old.id
    /\ new.imageUrl = old.imageUrl
    /\ new.backgroundImageUrl = old.backgroundImageUrl

\* C30 (refinement frame): the list refineCarouselContent returns has the
\* length, the slide ids and the order of its input; a per-slide refinement
\* returns every slide but the one at the given index unchanged and changes
\* at most type, content, showImage and imagePrompt of that one; a global
\* refinement changes no id and no image field, and keeps the original value
\* of every field for which the response has no entry.
C30_RefinementFrame ==
    refineCall.pc = "returned" =>
        LET old == refineCall.slides
            new == refineCall.out
            json == refineCall.json
        IN  /\ Len(new) = Len(old)
            /\ \A i \in DOMAIN old : SameButRefined(old[i], new[i])
            /\ refineCall.slideIndex # 0 =>
                  \A i \in DOMAIN old :
                     i # refineCall.slideIndex => new[i] = old[i]
            /\ refineCall.slideIndex = 0 =>
                  \A i \in DOMAIN old :
                     LET e == IF json.hasSlides /\ i \in DOMAIN json.slides
                              THEN json.slides[i] ELSE NoEntry
                     IN  /\ e.type = Undefined => new[i].type = old[i].type
                         /\ e.content = Undefined
                               => new[i].content = old[i].content
                         /\ e.needsImage = Undefined
                               => new[i].showImage = old[i].showImage
                         /\ e.suggestedImagePrompt = Undefined
                               => new[i].imagePrompt = old[i].imagePrompt

\* a global refinement of three slides whose response had an entry for the
\* first slide only: the others came back as they were
C30_Witness ==
    /\ refineCall.pc = "returned"
    /\ refineCall.slideIndex = 0
    /\ Len(refineCall.slides) = 3
    /\ refineCall.json.hasSlides
    /\ Len(refineCall.json.slides) = 1
    /\ refineCall.out[1].content = "new"
    /\ refineCall.out[2] = refineCall.slides[2]
    /\ refineCall.out[3] = refineCall.slides[3]
====
